---- MODULE Spec2Model ----
(***************************************************************************)
(* Model of sagepoweron/unit4: the embedding-inspector scripts.            *)
(*   src/app.js           (variant "app")                                   *)
(*   src/unnamed/part_000 (variant "part_000")                              *)
(* Both files define the same cosineSimilarity and a main() that fills an  *)
(* in-memory vector store with three sentences and searches it; app.js     *)
(* adds the interactive prompt loop.                                       *)
(*                                                                         *)
(* Numbers: vector components are small integers, on which JavaScript's    *)
(* double addition and multiplication are exact.  The quotient             *)
(* dotProduct / (sqrt(normA) * sqrt(normB)) is kept symbolically as        *)
(* [num, den2] meaning num / sqrt(den2); rounding of sqrt and / is not     *)
(* represented.  Division by zero follows IEEE-754: 0/0 is NaN, x/0 is     *)
(* an infinity.                                                            *)
(***************************************************************************)
EXTENDS Integers, Sequences, FiniteSets, TLC

VARIABLES
    \* ---- cosineSimilarity called on its own (SpecCos) ----
    vectorA, vectorB,   \* the two arguments
    cpc,                \* "off" | "ready" | "called" | "done"
    result,             \* cosineSimilarity(vectorA, vectorB)
    resultSwapped,      \* cosineSimilarity(vectorB, vectorA)
    \* ---- main() and the callbacks it leaves behind (Spec) ----
    variant,            \* which source file runs: "app" | "part_000"
    GITHUB_TOKEN,       \* process.env.GITHUB_TOKEN is set
    pc,                 \* position of main()
    exitCode,           \* NoExit while the process lives, else the exit code
    threw,              \* the error a promise rejected with, "none" if none
    vectorStore,        \* what the name vectorStore is bound to
    storeOps,           \* the store operations called so far
    addState,           \* progress of addDocuments
    memoryVectors,      \* the store's contents, in insertion order
    vectors,            \* part_000: the vectors array of lines 86-93
    i,                  \* loop counter of the for loops
    getVectorCalls,     \* ids passed to getVector so far
    similarities,       \* values printed by the pairwise loop
    pending,            \* searches started and not yet settled
    searchesStarted,    \* number of searchSentences calls so far
    results,            \* results of the search that printed last
    printed,            \* the lines that search printed
    printedFor,         \* the search that printed them
    rlState,            \* "none" | "asking" | "searching" | "closed" | "dead"
    promptCount,        \* number of rl.question calls so far
    linesRead,          \* number of input lines consumed so far
    input               \* the last input line consumed

cosVars  == <<vectorA, vectorB, cpc, result, resultSwapped>>
mainVars == <<variant, GITHUB_TOKEN, pc, exitCode, threw, vectorStore, storeOps,
              addState, memoryVectors, vectors, i, getVectorCalls, similarities,
              pending, searchesStarted, results, printed, printedFor, rlState,
              promptCount, linesRead, input>>
vars     == <<cosVars, mainVars>>

(***************************************************************************)
(* Bounds                                                                  *)
(***************************************************************************)
MaxDim   == 2    \* vectors of 1..MaxDim components go to cosineSimilarity in SpecCos
MaxAbs   == 1    \* components range over -MaxAbs..MaxAbs in SpecCos
MaxLines == 2    \* input lines typed at the prompt

Components == (0 - MaxAbs)..MaxAbs
Vectors    == UNION {[1..n -> Components] : n \in 1..MaxDim}

(***************************************************************************)
(* JavaScript numbers as far as the code needs them                        *)
(***************************************************************************)
NoValue   == [kind |-> "none",      num |-> 0, den2 |-> 0]
Thrown    == [kind |-> "throw",     num |-> 0, den2 |-> 0]
NaN       == [kind |-> "NaN",       num |-> 0, den2 |-> 0]
PlusInf   == [kind |-> "Infinity",  num |-> 1, den2 |-> 0]
MinusInf  == [kind |-> "Infinity",  num |-> 0 - 1, den2 |-> 0]

\* dotProduct / (Math.sqrt(normA) * Math.sqrt(normB))
JsDivideBySqrts(dotProduct, normA, normB) ==
    IF normA * normB = 0
    THEN IF dotProduct = 0 THEN NaN
         ELSE IF dotProduct > 0 THEN PlusInf ELSE MinusInf
    ELSE [kind |-> "number", num |-> dotProduct, den2 |-> normA * normB]

Sign(n) == IF n > 0 THEN 1 ELSE IF n < 0 THEN 0 - 1 ELSE 0

\* x < y on two finite numbers num / sqrt(den2)
JsLess(x, y) ==
    LET sx == Sign(x.num)
        sy == Sign(y.num)
        ax == x.num * x.num * y.den2      \* x^2 and y^2, times den2x * den2y
        ay == y.num * y.num * x.den2
    IN  \/ sx < sy
        \/ sx = sy /\ sx = 1 /\ ax < ay
        \/ sx = sy /\ sx = 0 - 1 /\ ax > ay

(***************************************************************************)
(* cosineSimilarity                                                        *)
(***************************************************************************)
DimensionsDifferMutant(a, b) == Len(a) > Len(b)
\* if (vectorA.length !== vectorB.length)
DimensionsDiffer(a, b) == Len(a) # Len(b)

LoopBodyMutant(acc, a, b, k) ==
    [dotProduct |-> acc.dotProduct + a[k] * b[k],
     normA      |-> acc.normA + a[k],
     normB      |-> acc.normB + b[k] * b[k]]
\* one pass through the body of the for loop (k is the 1-based i + 1)
LoopBody(acc, a, b, k) ==
    [dotProduct |-> acc.dotProduct + a[k] * b[k],
     normA      |-> acc.normA + a[k] * a[k],
     normB      |-> acc.normB + b[k] * b[k]]

RECURSIVE Loop(_, _, _, _)
\* for (let i = 0; i < vectorA.length; i++) { ... }
Loop(acc, a, b, k) ==
    IF k <= Len(a) THEN Loop(LoopBody(acc, a, b, k), a, b, k + 1) ELSE acc

cosineSimilarity(a, b) ==
    IF DimensionsDiffer(a, b)
    THEN Thrown     \* throw new Error("Vectors must have the same dimensions")
    ELSE LET acc == Loop([dotProduct |-> 0, normA |-> 0, normB |-> 0], a, b, 1)
         IN  JsDivideBySqrts(acc.dotProduct, acc.normA, acc.normB)

(***************************************************************************)
(* SpecCos: cosineSimilarity applied to every pair of bounded vectors,     *)
(* then to the same pair with the arguments exchanged.                     *)
(***************************************************************************)
CosOff ==
    /\ vectorA = <<>> /\ vectorB = <<>> /\ cpc = "off"
    /\ result = NoValue /\ resultSwapped = NoValue

CosInit ==
    /\ vectorA \in Vectors /\ vectorB \in Vectors /\ cpc = "ready"
    /\ result = NoValue /\ resultSwapped = NoValue

CallCosine ==
    /\ cpc = "ready"
    /\ result' = cosineSimilarity(vectorA, vectorB)
    /\ cpc' = "called"
    /\ UNCHANGED <<vectorA, vectorB, resultSwapped, mainVars>>

CallCosineSwapped ==
    /\ cpc = "called"
    /\ resultSwapped' = cosineSimilarity(vectorB, vectorA)
    /\ cpc' = "done"
    /\ UNCHANGED <<vectorA, vectorB, result, mainVars>>

NextCos == CallCosine \/ CallCosineSwapped

(***************************************************************************)
(* Strings: an input line is a sequence of one-character strings, so that  *)
(* trim and toLowerCase work on its characters.                            *)
(***************************************************************************)
Whitespace == {" ", "\t"}
LowerChars == <<"a","b","c","d","e","f","g","h","i","j","k","l","m",
                "n","o","p","q","r","s","t","u","v","w","x","y","z">>
UpperChars == <<"A","B","C","D","E","F","G","H","I","J","K","L","M",
                "N","O","P","Q","R","S","T","U","V","W","X","Y","Z">>

toLowerCaseChar(c) ==
    IF \E k \in DOMAIN UpperChars : UpperChars[k] = c
    THEN LowerChars[CHOOSE k \in DOMAIN UpperChars : UpperChars[k] = c]
    ELSE c

\* String.prototype.toLowerCase
toLowerCase(s) == [k \in 1..Len(s) |-> toLowerCaseChar(s[k])]

RECURSIVE trimStart(_)
trimStart(s) ==
    IF s # <<>> /\ Head(s) \in Whitespace THEN trimStart(Tail(s)) ELSE s

RECURSIVE trimEnd(_)
trimEnd(s) ==
    IF s # <<>> /\ s[Len(s)] \in Whitespace
    THEN trimEnd(SubSeq(s, 1, Len(s) - 1)) ELSE s

trimMutant(s) == s
\* String.prototype.trim (input.trim())
trim(s) == trimEnd(trimStart(s))

RECURSIVE Join(_)
\* the characters as one string value
Join(s) == IF s = <<>> THEN "" ELSE Head(s) \o Join(Tail(s))

IsTerminationCommandMutant(query) == Join(query) = "quit"
\* query.toLowerCase() === "quit" || query.toLowerCase() === "exit"
IsTerminationCommand(query) ==
    \/ Join(toLowerCase(query)) = "quit"
    \/ Join(toLowerCase(query)) = "exit"

\* !query
IsEmptyQuery(query) == query = <<>>

\* the lines typed at the prompt
InputLines ==
    { <<>>, <<" ">>, <<" ", "\t">>,
      <<"q","u","i","t">>, <<"Q","U","I","T">>, <<" ","Q","u","i","T"," ">>,
      <<"e","x","i","t">>, <<"\t","E","x","I","t">>,
      <<"q","u","i","t","s">>, <<"e","x"," ","i","t">>,
      <<"d","o","g">>, <<" ","D","o","g"," ">> }

(***************************************************************************)
(* The sentences and the documents made of them                           *)
(***************************************************************************)
Undefined == "undefined"

sentences ==
    IF variant = "app"
    THEN << "The canine barked loudly.",
            "The dog made a noise.",
            "The electron spins rapidly." >>
    ELSE << "I like pizza.",
            "I really love eating delicious, hot pizza.",
            "Pizza is good." >>

\* the objects handed to addDocuments; a field the object literal does not
\* set reads as undefined.  metadata.createdAt (the wall clock) is left out.
documents ==
    [k \in 1..Len(sentences) |->
        IF variant = "app"
        THEN [pageContent |-> sentences[k], text |-> Undefined,
              metadata |-> [index |-> k - 1]]
        ELSE [pageContent |-> Undefined, text |-> sentences[k],
              metadata |-> [index |-> k - 1]]]

\* the queries of the searches main() starts itself
exampleQueries ==
    IF variant = "app"
    THEN << "The dog made a noise." >>
    ELSE << "I like pizza.",
            "I really love eating delicious, hot pizza.",
            "Pizza is good." >>

\* k = 3, the default of searchSentences
DefaultK == 3

NextIndexMutant(cur, n) == cur + 1
\* const next = (i + 1) % sentences.length
NextIndex(cur, n) == (cur + 1) % n

(***************************************************************************)
(* The embedding provider and the vector store are libraries; the store    *)
(* follows the description of VectorStore and Ranker.                      *)
(***************************************************************************)
\* what the provider may answer for a text: vectors of one fixed length
EmbedVecs == { <<1, 0>>, <<0 - 1, 1>> }

NotFound == <<"NotFound">>

\* add(text, vector, metadata): append with id = count before insertion;
\* a vector of another length than the first one's is rejected
StoreAdd(store, doc, vec) ==
    IF store # <<>> /\ Len(vec) # Len(store[1].embedding)
    THEN store
    ELSE Append(store, [id |-> Len(store), document |-> doc, embedding |-> vec])

\* an id (or array index) that is in range
IdInRange(store, id) == id \in 0..(Len(store) - 1)

\* getVector(id)
getVector(store, id) ==
    IF IdInRange(store, id) THEN store[id + 1].embedding ELSE NotFound

Outranks(x, y) ==
    \/ JsLess(y.score, x.score)
    \/ ~JsLess(x.score, y.score) /\ x.id < y.id

RECURSIVE topK(_, _)
\* Ranker.topK: score descending, ties by ascending insertion id
topK(items, k) ==
    IF k <= 0 \/ items = {} THEN <<>>
    ELSE LET best == CHOOSE x \in items : \A y \in items \ {x} : Outranks(x, y)
         IN  <<best>> \o topK(items \ {best}, k - 1)

\* search(queryVector, k): linear scan, then the ranker; each result is a
\* pair of the stored document and its score
similaritySearchWithScore(store, queryVector, k) ==
    LET scored == { [id       |-> store[p].id,
                     document |-> store[p].document,
                     score    |-> cosineSimilarity(queryVector, store[p].embedding)]
                    : p \in 1..Len(store) }
        top    == topK(scored, k)
    IN  [j \in 1..Len(top) |-> [document |-> top[j].document, score |-> top[j].score]]

(***************************************************************************)
(* Printing                                                                *)
(***************************************************************************)
\* the 4 of toFixed(4)
FixedDigits == 4
Scale == 10 ^ FixedDigits

RECURSIVE RoundSearch(_, _, _, _)
\* the largest n in lo..hi with n - 1/2 <= Scale * |num| / sqrt(den2)
RoundSearch(lo, hi, num, den2) ==
    IF lo = hi THEN lo
    ELSE LET mid == (lo + hi + 1) \div 2
         IN  IF (2 * mid - 1) * (2 * mid - 1) * den2 <= 4 * Scale * Scale * num * num
             THEN RoundSearch(mid, hi, num, den2)
             ELSE RoundSearch(lo, mid - 1, num, den2)

\* Number.prototype.toFixed(4): the value in ten-thousandths, rounded
toFixed(x) ==
    IF x.kind = "number"
    THEN [kind |-> "number", fixed |-> Sign(x.num) * RoundSearch(0, Scale, x.num, x.den2)]
    ELSE [kind |-> x.kind, fixed |-> Sign(x.num)]

\* the text one iteration of results.forEach prints: Rank, Similarity
\* Score, Sentence (index is 0-based)
ResultLine(document, score, index) ==
    [rank |-> index + 1, score |-> toFixed(score), text |-> document.text]

PrintResults(res) ==
    [j \in 1..Len(res) |-> ResultLine(res[j].document, res[j].score, j - 1)]

(***************************************************************************)
(* main()                                                                  *)
(***************************************************************************)
\* printedFor before any search has printed
NoSearch == [sid |-> 0, query |-> "", origin |-> "none"]

\* exitCode while the process has not exited
NoExit == 0 - 1

Running == exitCode = NoExit

MainStart ==
    /\ variant \in {"app", "part_000"}
    /\ GITHUB_TOKEN \in BOOLEAN
    /\ pc = IF variant = "app" THEN "embeddings" ELSE "checkToken"
    /\ exitCode = NoExit
    /\ threw = "none"
    /\ vectorStore = Undefined
    /\ storeOps = {}
    /\ addState = "idle"
    /\ memoryVectors = <<>>
    /\ vectors = <<>>
    /\ i = 0
    /\ getVectorCalls = {}
    /\ similarities = <<>>
    /\ pending = {}
    /\ searchesStarted = 0
    /\ results = <<>>
    /\ printed = <<>>
    /\ printedFor = NoSearch
    /\ rlState = "none"
    /\ promptCount = 0
    /\ linesRead = 0
    /\ input = <<>>

\* the process is not started
MainOff ==
    /\ variant = "app" /\ GITHUB_TOKEN = FALSE /\ pc = "off"
    /\ exitCode = NoExit /\ threw = "none" /\ vectorStore = Undefined
    /\ storeOps = {} /\ addState = "idle" /\ memoryVectors = <<>>
    /\ vectors = <<>> /\ i = 0 /\ getVectorCalls = {} /\ similarities = <<>>
    /\ pending = {} /\ searchesStarted = 0 /\ results = <<>> /\ printed = <<>>
    /\ printedFor = NoSearch
    /\ rlState = "none" /\ promptCount = 0 /\ linesRead = 0 /\ input = <<>>

\* new OpenAIEmbeddings(...)
NewEmbeddings ==
    /\ Running /\ pc = "embeddings"
    /\ pc' = "fromTexts"
    /\ UNCHANGED <<cosVars, variant, GITHUB_TOKEN, exitCode, threw, vectorStore,
                   storeOps, addState, memoryVectors, vectors, i, getVectorCalls,
                   similarities, pending, searchesStarted, results, printed, printedFor,
                   rlState, promptCount, linesRead, input>>

\* app.js awaits MemoryVectorStore.fromTexts and so holds the store before
\* it looks at the token; part_000 does not await it, so the name is bound
\* to the store or to a promise of it, as the library decides
FromTexts ==
    /\ Running /\ pc = "fromTexts"
    /\ storeOps' = storeOps \cup {"fromTexts"}
    /\ IF variant = "app"
       THEN vectorStore' = "store" /\ pc' = "checkToken"
       ELSE vectorStore' \in {"store", "promise"} /\ pc' = "addDocuments"
    /\ UNCHANGED <<cosVars, variant, GITHUB_TOKEN, exitCode, threw, addState,
                   memoryVectors, vectors, i, getVectorCalls, similarities,
                   pending, searchesStarted, results, printed, printedFor, rlState,
                   promptCount, linesRead, input>>

\* if (!process.env.GITHUB_TOKEN) { ...; process.exit(1); }
CheckToken ==
    /\ Running /\ pc = "checkToken"
    /\ IF ~GITHUB_TOKEN
       THEN exitCode' = 1 /\ pc' = "exited"
       ELSE exitCode' = exitCode
            /\ pc' = IF variant = "app" THEN "addDocuments" ELSE "embeddings"
    /\ UNCHANGED <<cosVars, variant, GITHUB_TOKEN, threw, vectorStore, storeOps,
                   addState, memoryVectors, vectors, i, getVectorCalls,
                   similarities, pending, searchesStarted, results, printed, printedFor,
                   rlState, promptCount, linesRead, input>>

\* vectorStore.addDocuments(...) is called; a promise has no such method
AddDocuments ==
    /\ Running /\ pc = "addDocuments"
    /\ IF vectorStore = "promise"
       THEN /\ threw' = "TypeError" /\ pc' = "rejected"
            /\ UNCHANGED <<storeOps, addState>>
       ELSE /\ storeOps' = storeOps \cup {"addDocuments"}
            /\ addState' = "embedding"
            /\ pc' = "awaitAdd"
            /\ threw' = threw
    /\ UNCHANGED <<cosVars, variant, GITHUB_TOKEN, exitCode, vectorStore,
                   memoryVectors, vectors, i, getVectorCalls, similarities,
                   pending, searchesStarted, results, printed, printedFor, rlState,
                   promptCount, linesRead, input>>

\* the provider answers the request for the documents' embeddings
EmbedDocuments ==
    /\ Running /\ addState = "embedding"
    /\ addState' \in {"inserting", "failed"}
    /\ UNCHANGED <<cosVars, variant, GITHUB_TOKEN, pc, exitCode, threw, vectorStore,
                   storeOps, memoryVectors, vectors, i, getVectorCalls,
                   similarities, pending, searchesStarted, results, printed, printedFor,
                   rlState, promptCount, linesRead, input>>

\* the store takes the next document with the vector the provider gave
InsertDocument ==
    /\ Running /\ addState = "inserting"
    /\ \E vec \in EmbedVecs :
          memoryVectors' =
              StoreAdd(memoryVectors, documents[Len(memoryVectors) + 1], vec)
    /\ addState' = IF Len(memoryVectors') = Len(documents) THEN "done" ELSE "inserting"
    /\ UNCHANGED <<cosVars, variant, GITHUB_TOKEN, pc, exitCode, threw, vectorStore,
                   storeOps, vectors, i, getVectorCalls, similarities, pending,
                   searchesStarted, results, printed, printedFor, rlState, promptCount,
                   linesRead, input>>

AddDocumentsSettledMutant == TRUE
\* await: main() goes on only when the promise of addDocuments has settled
AddDocumentsSettled == addState \in {"done", "failed"}

ResumeAfterAdd ==
    /\ Running /\ pc = "awaitAdd" /\ AddDocumentsSettled
    /\ IF addState = "failed"
       THEN threw' = "ProviderError" /\ pc' = "rejected"
       ELSE threw' = threw
            /\ pc' = IF variant = "app" THEN "similarity" ELSE "embedQuery"
    /\ UNCHANGED <<cosVars, variant, GITHUB_TOKEN, exitCode, vectorStore, storeOps,
                   addState, memoryVectors, vectors, i, getVectorCalls,
                   similarities, pending, searchesStarted, results, printed, printedFor,
                   rlState, promptCount, linesRead, input>>

\* part_000: const embedding = await embeddings.embedQuery(sentences[i]);
\*           vectors.push(embedding);
EmbedSentence ==
    /\ Running /\ pc = "embedQuery"
    /\ \/ /\ \E vec \in EmbedVecs : vectors' = Append(vectors, vec)
          /\ IF i + 1 < Len(sentences)
             THEN i' = i + 1 /\ pc' = pc
             ELSE i' = 0 /\ pc' = "similarity"
          /\ threw' = threw
       \/ /\ threw' = "ProviderError" /\ pc' = "rejected"
          /\ UNCHANGED <<vectors, i>>
    /\ UNCHANGED <<cosVars, variant, GITHUB_TOKEN, exitCode, vectorStore, storeOps,
                   addState, memoryVectors, getVectorCalls, similarities, pending,
                   searchesStarted, results, printed, printedFor, rlState, promptCount,
                   linesRead, input>>

\* one iteration of the pairwise loop: app.js reads the two vectors from the
\* store with getVector, part_000 from its vectors array (an index past the
\* end reads undefined, whose .length throws)
SimilarityStep ==
    /\ Running /\ pc = "similarity"
    /\ LET n       == IF variant = "app" THEN Len(sentences) ELSE Len(vectors)
           current == i
           next    == NextIndex(i, n)
           held    == IF variant = "app" THEN memoryVectors ELSE vectors
           found   == IdInRange(held, current) /\ IdInRange(held, next)
           a       == IF variant = "app" THEN getVector(memoryVectors, current)
                                         ELSE vectors[current + 1]
           b       == IF variant = "app" THEN getVector(memoryVectors, next)
                                         ELSE vectors[next + 1]
       IN  /\ getVectorCalls' = IF variant = "app"
                                THEN getVectorCalls \cup {current, next}
                                ELSE getVectorCalls
           /\ storeOps' = IF variant = "app"
                          THEN storeOps \cup {"getVector"} ELSE storeOps
           /\ IF ~found
              THEN /\ threw' = IF variant = "app" THEN "NotFound" ELSE "TypeError"
                   /\ pc' = "rejected"
                   /\ UNCHANGED <<similarities, i>>
              ELSE IF cosineSimilarity(a, b).kind = "throw"
              THEN /\ threw' = "DimensionMismatch"
                   /\ pc' = "rejected"
                   /\ UNCHANGED <<similarities, i>>
              ELSE /\ similarities' = Append(similarities, toFixed(cosineSimilarity(a, b)))
                   /\ threw' = threw
                   /\ IF i + 1 < n
                      THEN i' = i + 1 /\ pc' = pc
                      ELSE i' = i + 1 /\ pc' = "exampleSearch"
    /\ UNCHANGED <<cosVars, variant, GITHUB_TOKEN, exitCode, vectorStore, addState,
                   memoryVectors, vectors, pending, searchesStarted, results,
                   printed, printedFor, rlState, promptCount, linesRead, input>>

\* searchSentences(vectorStore, "..."), not awaited: app.js starts one,
\* part_000 three, and main() goes on at once
StartExampleSearches ==
    /\ Running /\ pc = "exampleSearch"
    /\ pending' = pending \cup
          { [sid |-> searchesStarted + j, query |-> exampleQueries[j], origin |-> "main"]
            : j \in 1..Len(exampleQueries) }
    /\ searchesStarted' = searchesStarted + Len(exampleQueries)
    /\ storeOps' = storeOps \cup {"similaritySearchWithScore"}
    /\ pc' = IF variant = "app" THEN "prompt" ELSE "returned"
    /\ UNCHANGED <<cosVars, variant, GITHUB_TOKEN, exitCode, threw, vectorStore,
                   addState, memoryVectors, vectors, i, getVectorCalls,
                   similarities, results, printed, printedFor, rlState, promptCount,
                   linesRead, input>>

\* readline.createInterface(...); await promptUser(): the first rl.question
PromptUser ==
    /\ Running /\ pc = "prompt"
    /\ rlState' = "asking"
    /\ promptCount' = promptCount + 1
    /\ pc' = "returned"
    /\ UNCHANGED <<cosVars, variant, GITHUB_TOKEN, exitCode, threw, vectorStore,
                   storeOps, addState, memoryVectors, vectors, i, getVectorCalls,
                   similarities, pending, searchesStarted, results, printed, printedFor,
                   linesRead, input>>

\* the callback of rl.question runs on an input line
ReadLine(line) ==
    /\ Running /\ rlState = "asking" /\ linesRead < MaxLines
    /\ input' = line
    /\ linesRead' = linesRead + 1
    /\ LET query == trim(line)
       IN  IF IsTerminationCommand(query)
           THEN \* rl.close(); process.exit(0);
                /\ rlState' = "closed"
                /\ exitCode' = 0
                /\ UNCHANGED <<promptCount, pending, searchesStarted, storeOps>>
           ELSE IF IsEmptyQuery(query)
           THEN \* return promptUser();
                /\ rlState' = "asking"
                /\ promptCount' = promptCount + 1
                /\ UNCHANGED <<exitCode, pending, searchesStarted, storeOps>>
           ELSE \* await searchSentences(vectorStore, query)
                /\ pending' = pending \cup
                      { [sid |-> searchesStarted + 1, query |-> Join(query),
                         origin |-> "prompt"] }
                /\ searchesStarted' = searchesStarted + 1
                /\ storeOps' = storeOps \cup {"similaritySearchWithScore"}
                /\ rlState' = "searching"
                /\ UNCHANGED <<exitCode, promptCount>>
    /\ UNCHANGED <<cosVars, variant, GITHUB_TOKEN, pc, threw, vectorStore, addState,
                   memoryVectors, vectors, i, getVectorCalls, similarities,
                   results, printed, printedFor>>

\* a search gets its query's embedding, scans the store and prints; the
\* prompt's search then asks the next question (return promptUser())
SearchSettle(s) ==
    /\ Running /\ s \in pending
    /\ \E queryVector \in EmbedVecs :
          /\ results' = similaritySearchWithScore(memoryVectors, queryVector, DefaultK)
          /\ printed' = PrintResults(results')
    /\ printedFor' = s
    /\ pending' = pending \ {s}
    /\ IF s.origin = "prompt"
       THEN rlState' = "asking" /\ promptCount' = promptCount + 1
       ELSE UNCHANGED <<rlState, promptCount>>
    /\ UNCHANGED <<cosVars, variant, GITHUB_TOKEN, pc, exitCode, threw, vectorStore,
                   storeOps, addState, memoryVectors, vectors, i, getVectorCalls,
                   similarities, searchesStarted, linesRead, input>>

\* the provider fails on the query: the promise of searchSentences rejects
\* and nothing handles it; the runtime ends the process with code 1 or only
\* warns, and the prompt's callback never asks again
SearchFail(s) ==
    /\ Running /\ s \in pending
    /\ pending' = pending \ {s}
    /\ threw' = "ProviderError"
    /\ exitCode' \in {NoExit, 1}
    /\ rlState' = IF s.origin = "prompt" THEN "dead" ELSE rlState
    /\ UNCHANGED <<cosVars, variant, GITHUB_TOKEN, pc, vectorStore, storeOps,
                   addState, memoryVectors, vectors, i, getVectorCalls,
                   similarities, searchesStarted, results, printed, printedFor, promptCount,
                   linesRead, input>>

Init == CosOff /\ MainStart

Next ==
    \/ NewEmbeddings
    \/ FromTexts
    \/ CheckToken
    \/ AddDocuments
    \/ EmbedDocuments
    \/ InsertDocument
    \/ ResumeAfterAdd
    \/ EmbedSentence
    \/ SimilarityStep
    \/ StartExampleSearches
    \/ PromptUser
    \/ \E line \in InputLines : ReadLine(line)
    \/ \E s \in pending : SearchSettle(s)
    \/ \E s \in pending : SearchFail(s)

Spec == Init /\ [][Next]_vars

InitCos == CosInit /\ MainOff

SpecCos == InitCos /\ [][NextCos]_vars

(***************************************************************************)
(* Properties of cosineSimilarity, checked under SpecCos                   *)
(***************************************************************************)
IsZeroVector(v) == \A k \in 1..Len(v) : v[k] = 0

RECURSIVE SumOver(_, _, _)
\* the sum of a[k] * b[k] over the indices in S
SumOver(S, a, b) ==
    IF S = {} THEN 0
    ELSE LET k == CHOOSE x \in S : TRUE
         IN  a[k] * b[k] + SumOver(S \ {k}, a, b)

Dot(a, b)  == SumOver(1..Len(a), a, b)
SqNorm(a)  == SumOver(1..Len(a), a, a)

Returned == cpc \in {"called", "done"}

\* x === y on two numbers: NaN equals nothing, itself included
JsEquals(x, y) ==
    /\ x.kind \in {"number", "Infinity"}
    /\ x.kind = y.kind
    /\ Sign(x.num) = Sign(y.num)
    /\ x.num * x.num * y.den2 = y.num * y.num * x.den2

\* C1: on two vectors of equal length of which one has only zero
\* components, cosineSimilarity returns the number 0.0, not NaN and not an
\* infinity.
C1_ZeroVectorGivesZero ==
    (/\ Returned
     /\ Len(vectorA) = Len(vectorB)
     /\ (IsZeroVector(vectorA) \/ IsZeroVector(vectorB)))
    => (result.kind = "number" /\ result.num = 0)

\* C3: cosineSimilarity throws, and yields no score, exactly when the two
\* vectors differ in length.
C3_DimensionMismatch ==
    Returned =>
        /\ (Len(vectorA) # Len(vectorB)) <=> (result.kind = "throw")
        /\ (Len(vectorA) # Len(vectorB)) => result = Thrown

C3_Witness ==
    /\ cpc = "called"
    /\ Len(vectorA) = 1 /\ Len(vectorB) = 2
    /\ result.kind = "throw"

\* C7: for vectors of equal length, cosineSimilarity(a, b) ==
\* cosineSimilarity(b, a), with == the equality of numbers.
C7_Symmetric ==
    (cpc = "done" /\ Len(vectorA) = Len(vectorB))
    => JsEquals(result, resultSwapped)

C2_NoStoreOpWithoutToken ==
    ~GITHUB_TOKEN =>
        /\ storeOps = {}
        /\ vectorStore = Undefined
        /\ exitCode \in {NoExit, 1}

IsBlankLine(line) == \A k \in 1..Len(line) : line[k] \in {" ", "\t"}

QuitWords ==
    { << {"q", "Q"}, {"u", "U"}, {"i", "I"}, {"t", "T"} >>,
      << {"e", "E"}, {"x", "X"}, {"i", "I"}, {"t", "T"} >> }

\* line is quit or exit in some letter case, between whitespace
IsQuitLine(line) ==
    \E w \in QuitWords : \E first \in 1..Len(line) :
        LET last == first + Len(w) - 1
        IN  /\ last <= Len(line)
            /\ \A k \in 1..Len(w) : line[first + k - 1] \in w[k]
            /\ \A k \in 1..(first - 1) : line[k] \in {" ", "\t"}
            /\ \A k \in (last + 1)..Len(line) : line[k] \in {" ", "\t"}

LineConsumed == linesRead' = linesRead + 1

\* C4: a line that is quit or exit in any letter case, trimmed, ends the
\* process with code 0 without starting a search or asking again, and
\* after that exit nothing is asked, searched or printed.
C4_QuitTerminates ==
    [][ /\ (LineConsumed /\ IsQuitLine(input')) =>
              /\ exitCode' = 0
              /\ searchesStarted' = searchesStarted
              /\ pending' = pending
              /\ promptCount' = promptCount
        /\ exitCode = 0 =>
              /\ promptCount' = promptCount
              /\ searchesStarted' = searchesStarted
              /\ printed' = printed
      ]_vars

C4_Witness ==
    /\ exitCode = 0
    /\ rlState = "closed"
    /\ input = <<" ", "Q", "u", "i", "T", " ">>

\* C5: a blank line starts no search and touches no store operation; it
\* makes exactly one new prompt.
C5_BlankReprompts ==
    [][ (LineConsumed /\ IsBlankLine(input')) =>
            /\ searchesStarted' = searchesStarted
            /\ pending' = pending
            /\ storeOps' = storeOps
            /\ promptCount' = promptCount + 1
            /\ rlState' = "asking"
            /\ exitCode' = exitCode
      ]_vars

C5_Witness ==
    /\ linesRead = 2
    /\ input = <<" ", "\t">>
    /\ rlState = "asking"
    /\ promptCount = 3
    /\ searchesStarted = 1

\* the text a result's document was inserted with
InsertedText(document) == sentences[document.metadata.index + 1]

\* C6: what a search started from the prompt prints: the query is the
\* trimmed line, the store is searched as it is, and each line shows the
\* rank, the score and the text the document was inserted with.
C6_ResultsShowRankScoreText ==
    printedFor.origin = "prompt" =>
        /\ Len(printed) = Len(memoryVectors)
        /\ \A j \in 1..Len(printed) :
              /\ printed[j].rank = j
              /\ printed[j].score = toFixed(results[j].score)
              /\ printed[j].text = InsertedText(results[j].document)

\* C9: a search is started, and runs, only when all sentences are in the
\* store; while searches overlap each other and the prompt the store stays
\* complete, and each result set holds every inserted document.
C9_SearchAfterInsertion ==
    (pending # {} \/ printedFor # NoSearch) =>
        /\ addState = "done"
        /\ Len(memoryVectors) = Len(sentences)
        /\ printedFor # NoSearch =>
              { results[j].document : j \in 1..Len(results) }
                  = { documents[k] : k \in 1..Len(documents) }

C9_Witness ==
    /\ variant = "app"
    /\ Cardinality(pending) = 2
    /\ rlState = "searching"
    /\ Len(memoryVectors) = Len(sentences)

\* C10: the index recorded for each document is its 0-based position of
\* insertion, the ids are 0..size-1, and every id the pairwise loop hands to
\* getVector is below size, so NotFound never occurs.
C10_IdsMatchInsertionOrder ==
    /\ \A p \in 1..Len(memoryVectors) :
          /\ memoryVectors[p].document.metadata.index = p - 1
          /\ memoryVectors[p].id = p - 1
    /\ getVectorCalls \subseteq 0..(Len(memoryVectors) - 1)
    /\ threw # "NotFound"

C10_Witness ==
    /\ variant = "app"
    /\ pc = "exampleSearch"
    /\ getVectorCalls = 0..(Len(memoryVectors) - 1)
    /\ Len(memoryVectors) = Len(sentences)
    /\ Len(similarities) = Len(sentences)

====
